---- MODULE Spec2Model ----
(***************************************************************************)
(* The scoreboard clock engine of NovatoStatPad (src/scoreboard.py, class  *)
(* DualMonitorScoreboard): game clock, shot clock, buzzer latches, the     *)
(* operator handlers bound to keys and buttons, and the 60 Hz timer thread.*)
(*                                                                         *)
(* Time.  The program keeps clock values as Python floats (seconds).  The  *)
(* model keeps them in fixed point with one binary digit after the point:  *)
(* an integer number of half seconds, so that fractional seconds exist and *)
(* int(...) and fmt_mmss(...) truncate.  Every number of seconds of the    *)
(* source (24, 14, 99, 60, ...) is written Sec(n), and int(x) is Whole(x). *)
(*                                                                         *)
(* Threads.  Spec takes one iteration of the timer loop and one operator   *)
(* handler as one step each (the sequential meaning of the engine).        *)
(* SpecConc runs the timer loop one read or write at a time, interleaved   *)
(* with the handlers of the main thread; there is no lock in the source.   *)
(*                                                                         *)
(* Other specifications.  SpecBook adds the score, foul, timeout and       *)
(* period handlers; SpecShared has the operations that                     *)
(* src/scoreboard_tkinter.py has too; SpecEnv varies the sound and the     *)
(* Supabase client; SpecFloat ticks one clock in floating point.           *)
(* SpecAdjust and SpecReset are SpecConc with the adjustments, or the      *)
(* resets, as the only handlers; SpecSync is the mirror to Supabase under  *)
(* fair scheduling.  SpecMonth and SpecItems apply the two functions of    *)
(* src/database.py that fill the game selection screen, and SpecSelect is  *)
(* the key loop of that screen (src/game_selection.py).                    *)
(***************************************************************************)
EXTENDS Integers, FiniteSets, Sequences, TLC

VARIABLES
    scoreA, scoreB, foulsA, foulsB, timeoutsA, timeoutsB, period,
    game_seconds, shot_seconds, running_game, running_shot,
    game_buzzer_played, shot_buzzer_played, game_status,
    cfg,                \* self.cfg: the fields the engine reads
    last_update,        \* self.last_update: the previous time.time() reading
    buzzer_sound,       \* TRUE: a pygame Sound was loaded; FALSE: None
    supabase_client,    \* TRUE: a client exists; FALSE: None
    last_score_data,    \* the last snapshot upserted, or NoData
    upserted,           \* the upsert sent in the last step: "none", "ok", "failed"
    played,             \* clocks whose buzzer_sound.play() sounded in the last step
    pc, dt, prev_game_seconds, prev_shot_seconds, loaded,  \* timer thread locals
    fp,                 \* one clock ticked in floating point (see SpecFloat)
    supabase_update_timer,  \* self.supabase_update_timer (see SpecSync)
    after_queue,        \* update_supabase_data callbacks queued by root.after
    month_query,        \* one call of get_games_by_month_range (see SpecMonth)
    listing,            \* one call of make_display_items (see SpecItems)
    selection           \* the game selection screen (see SpecSelect)

counters == <<scoreA, scoreB, foulsA, foulsB, timeoutsA, timeoutsB, period>>
gameClock == <<game_seconds, running_game, game_buzzer_played, game_status>>
shotClock == <<shot_seconds, running_shot, shot_buzzer_played>>
environment == <<buzzer_sound, supabase_client>>
timerLocals == <<pc, dt, prev_game_seconds, prev_shot_seconds, loaded>>
engine == <<counters, gameClock, shotClock, cfg, last_update, environment,
            last_score_data, upserted, played, timerLocals>>
sync == <<supabase_update_timer, after_queue>>
screens == <<month_query, listing, selection>>
aside == <<fp, sync, screens>>
vars == <<engine, aside>>

-----------------------------------------------------------------------------
(* Bounds of the model.                                                    *)

\* Wall-clock times are only ever subtracted from one another (line 1578), so
\* the program does not depend on the origin of time: the model puts the origin
\* at the previous reading, which makes last_update 0 in every state and the
\* new reading the elapsed time.  A reading is MaxReading half seconds after the
\* previous one, equal to it, or MaxReading half seconds before it
\* (time.time() is the system clock, which can be set back).
MaxReading == 15
\* adjust_time has no upper clamp in the source, and neither has a tick whose
\* dt is negative; the model stops raising the game clock above this many
\* seconds, and the shot clock above MaxShotSeconds.
MaxGameSeconds == 70
MaxShotSeconds == 107

\* n seconds in half seconds; int() of a non-negative number of half seconds.
Sec(n) == 2 * n
Whole(x) == x \div 2
Max(a, b) == IF a >= b THEN a ELSE b
Min(a, b) == IF a <= b THEN a ELSE b

Readings == {-MaxReading, 0, MaxReading}
ForwardReadings == {r \in Readings : r >= 0}
\* Move the origin of time to the reading just taken.
rebase(reading, t) == t - reading
\* Deltas of the key bindings and buttons the model lets the operator use.
GameDeltas == {Sec(-60), Sec(60)}
ShotDeltas == {Sec(-5), Sec(5)}
\* Radio buttons of the settings dialog (5..12 minutes, 1..5 timeouts).
GameMinutes == {5}
TimeoutCounts == {3}
\* Start-up configuration: load_cfg's defaults overridden by --game / --shot.
StartGameSeconds == {Sec(4)}
StartShotSeconds == {Sec(24), Sec(100)}

\* The deltas the keys and buttons pass to the bookkeeping handlers, and a
\* large negative one.
Teams == {"A", "B"}
ScorePoints == {-100, -1, 1, 2, 3}
CountChanges == {-1, 1}
PeriodDeltas == {-1, 1}
\* Scores and fouls have no upper limit in the program; the model stops
\* raising them here.
MaxScore == 3
\* Bits in the significand of the model's floats (53 in a Python float).
MantissaBits == 3
MaxFouls == 1
MaxQueued == 2
MaxGames == 3
MaxListed == 11

\* last_score_data is None or one snapshot: a sequence of at most one record.
NoData == << >>

-----------------------------------------------------------------------------
(* Pure functions of the source.                                           *)

\* fmt_mmss(s): "mm:ss" of int(s), as the pair <<mm, ss>>.
fmt_mmss(s) ==
    LET i == Max(0, Whole(s)) IN <<i \div 60, i % 60>>

\* get_score_data(): the snapshot sent to Supabase (the fields that the engine
\* changes; names, colours, logos and game_id are fixed strings here).
get_score_data ==
    [team1_score |-> scoreA, team2_score |-> scoreB,
     team1_fouls |-> foulsA, team2_fouls |-> foulsB,
     team1_timeouts |-> timeoutsA, team2_timeouts |-> timeoutsB,
     current_quarter |-> period,
     quarter_time |-> fmt_mmss(game_seconds),
     game_status |-> game_status,
     shot_clock |-> Whole(shot_seconds)]

\* update_supabase_data(): runs at the end of every handler, on the state the
\* handler leaves.  The upsert may fail (update_live_score_to_supabase
\* returns False on any exception).
update_supabase_data_stores_unsent ==
    IF ~supabase_client \/ last_score_data = <<get_score_data'>>
    THEN UNCHANGED last_score_data /\ upserted' = "none"
    ELSE \E success \in BOOLEAN :
            /\ upserted' = IF success THEN "ok" ELSE "failed"
            /\ last_score_data' = <<get_score_data'>>

update_supabase_data ==
    IF ~supabase_client \/ last_score_data = <<get_score_data'>>
    THEN UNCHANGED last_score_data /\ upserted' = "none"
    ELSE \E success \in BOOLEAN :
            /\ upserted' = IF success THEN "ok" ELSE "failed"
            /\ last_score_data' =
                    IF success THEN <<get_score_data'>> ELSE last_score_data

\* Faulty variants of the definitions below, used to show that the checked
\* properties depend on them.
tick_guard_any_value(running, seconds) == running
tick_guard_any_flag(running, seconds) == seconds > 0
tick_value_unclamped(seconds, d) == seconds - d

\* The timer's decrement of one clock: lines 1582-1584 and 1597-1599.
tick_guard(running, seconds) == running /\ seconds > 0
tick_value(seconds, d) == Max(0, seconds - d)
tick_clock(running, seconds, d) ==
    IF tick_guard(running, seconds) THEN tick_value(seconds, d) ELSE seconds

\* The buzzer condition of lines 1587-1588 and 1602-1603.
buzzer_due(prev, new, latch) ==
    prev > 0 /\ new = 0 /\ buzzer_sound /\ ~latch

\* buzzer_sound.play() inside try/except: it sounds (TRUE) or raises (FALSE);
\* it is not called when the buzzer is not due.
play_outcomes(due) == IF due THEN BOOLEAN ELSE {FALSE}

\* Faulty variant: the sum without the floor.
raised_count_unfloored(old, change) == old + change

\* update_score, update_timeout, update_foul: max(0, old + change)
raised_count(old, change) == Max(0, old + change)

\* Faulty variant: the period without the upper limit.
adjusted_period_unlimited(old, delta) == Max(1, old + delta)

\* adjust_period: max(1, min(period_max, period + delta))
adjusted_period(old, delta) == Max(1, Min(cfg.period_max, old + delta))

\* adjust_time / adjust_shot_time clamps.
adjusted_game(seconds, delta) == Max(0, seconds + delta)
adjusted_shot(seconds, delta) == Max(0, Min(Sec(99), seconds + delta))

-----------------------------------------------------------------------------
(* Construction: main() and DualMonitorScoreboard.__init__.                *)

\* The spacing of the floats around a magnitude a.
RECURSIVE spacing(_)
spacing(a) == IF a < 2 ^ MantissaBits THEN 1 ELSE 2 * spacing(a \div 2)

\* Round to the nearest float, ties to the even significand.
fl(x) ==
    LET a == IF x < 0 THEN -x ELSE x
        q == spacing(a)
        m == a \div q
        r == a - m * q
        up == 2 * r > q \/ (2 * r = q /\ m % 2 = 1)
        n == IF up THEN (m + 1) * q ELSE m * q
    IN  IF x < 0 THEN -n ELSE n

Floats == {x \in 0..(4 * 2 ^ MantissaBits) : fl(x) = x}

\* Faulty variant: the decrement without the floor.
float_tick_unfloored(seconds, d) ==
    IF tick_guard(TRUE, seconds) THEN fl(seconds - d) ELSE seconds

\* A tick of a running clock: if seconds > 0: seconds = max(0, seconds - dt)
float_tick(seconds, d) ==
    IF tick_guard(TRUE, seconds) THEN Max(0, fl(seconds - d)) ELSE seconds

FloatIdle ==
    [v0 |-> 0, d1 |-> 0, d2 |-> 0, split |-> 0, single |-> 0,
     ticks |-> 0, merged |-> FALSE]

\* The parts of the program a specification does not run stay as they are
\* before their first use.
SyncIdle == supabase_update_timer = 0 /\ after_queue = 0
QueryIdle == [stage |-> "idle"]
ListingIdle == [stage |-> "idle"]
SelectionIdle == [stage |-> "idle"]
ScreensIdle ==
    month_query = QueryIdle /\ listing = ListingIdle /\ selection = SelectionIdle
AsideIdle == fp = FloatIdle /\ SyncIdle /\ ScreensIdle

-----------------------------------------------------------------------------
(* The engine of scoreboard_tkinter.py, as functions of the engine fields  *)
(* the two programs share.                                                 *)

\* The shared fields of this program's state.
shared_fields ==
    [scoreA |-> scoreA, scoreB |-> scoreB, foulsA |-> foulsA, foulsB |-> foulsB,
     timeoutsA |-> timeoutsA, timeoutsB |-> timeoutsB, period |-> period,
     game_seconds |-> game_seconds, shot_seconds |-> shot_seconds,
     running_game |-> running_game, running_shot |-> running_shot]

tk_update_score(e, team, points) ==
    IF team = "A" THEN [e EXCEPT !.scoreA = Max(0, @ + points)]
                  ELSE [e EXCEPT !.scoreB = Max(0, @ + points)]

tk_update_timeout(e, team, change) ==
    IF team = "A" THEN [e EXCEPT !.timeoutsA = Max(0, @ + change)]
                  ELSE [e EXCEPT !.timeoutsB = Max(0, @ + change)]

tk_update_foul(e, team, change) ==
    IF team = "A" THEN [e EXCEPT !.foulsA = Max(0, @ + change)]
                  ELSE [e EXCEPT !.foulsB = Max(0, @ + change)]

tk_toggle_game_time(e) == [e EXCEPT !.running_game = ~@]

tk_toggle_shot_time(e) == [e EXCEPT !.running_shot = ~@]

tk_adjust_time(e, seconds) == [e EXCEPT !.game_seconds = Max(0, @ + seconds)]

tk_adjust_period(e, delta) ==
    [e EXCEPT !.period = Max(1, Min(cfg.period_max, @ + delta))]

tk_reset_shot_clock(e) ==
    [e EXCEPT !.shot_seconds = Sec(24), !.running_shot = FALSE]

tk_reset_all(e) ==
    [e EXCEPT !.scoreA = 0, !.scoreB = 0, !.period = 1,
              !.timeoutsA = cfg.timeouts_per_team,
              !.timeoutsB = cfg.timeouts_per_team,
              !.foulsA = 0, !.foulsB = 0,
              !.running_game = FALSE, !.running_shot = FALSE,
              !.game_seconds = cfg.game_seconds,
              !.shot_seconds = cfg.shot_seconds]

\* One iteration of its timer thread with dt = d.
tk_timer_thread(e, d) ==
    [e EXCEPT
       !.game_seconds = IF e.running_game /\ @ > 0 THEN Max(0, @ - d) ELSE @,
       !.shot_seconds = IF e.running_shot /\ @ > 0 THEN Max(0, @ - d) ELSE @]

-----------------------------------------------------------------------------
(* What scoreboard.py's handlers and timer assign to the shared fields,    *)
(* read off the assignments alone: no sound, no Supabase client, no latch. *)

plain_update_score(e, team, points) ==
    IF team = "A" THEN [e EXCEPT !.scoreA = Max(0, @ + points)]
                  ELSE [e EXCEPT !.scoreB = Max(0, @ + points)]

plain_reset_game_time(e) ==
    [e EXCEPT !.game_seconds = cfg.game_seconds, !.running_game = FALSE]

plain_toggle_game_time(e) ==
    IF e.game_seconds = 0 THEN plain_reset_game_time(e)
                          ELSE [e EXCEPT !.running_game = ~@]

plain_toggle_shot_time(e) == [e EXCEPT !.running_shot = ~@]

plain_adjust_time(e, seconds) ==
    [e EXCEPT !.game_seconds = Max(0, @ + seconds)]

plain_reset_shot_clock(e) ==
    [e EXCEPT !.shot_seconds = Sec(24), !.running_shot = FALSE]

plain_reset_all(e) ==
    [e EXCEPT !.scoreA = 0, !.scoreB = 0, !.period = 1,
              !.timeoutsA = cfg.timeouts_per_team,
              !.timeoutsB = cfg.timeouts_per_team,
              !.foulsA = 0, !.foulsB = 0,
              !.running_game = FALSE, !.running_shot = FALSE,
              !.game_seconds = cfg.game_seconds,
              !.shot_seconds = cfg.shot_seconds]

\* One iteration of the timer thread with dt = d.
plain_timer_thread(e, d) ==
    [e EXCEPT
       !.game_seconds = IF e.running_game /\ @ > 0 THEN Max(0, @ - d) ELSE @,
       !.shot_seconds = IF e.running_shot /\ @ > 0 THEN Max(0, @ - d) ELSE @]

-----------------------------------------------------------------------------
StartCfgs ==
    [game_seconds : StartGameSeconds, shot_seconds : StartShotSeconds,
     period_max : {4}, timeouts_per_team : {3}]

InitEngine ==
    /\ cfg \in StartCfgs
    /\ scoreA = 0 /\ scoreB = 0 /\ foulsA = 0 /\ foulsB = 0
    /\ period = 1
    /\ timeoutsA = cfg.timeouts_per_team /\ timeoutsB = cfg.timeouts_per_team
    /\ running_game = FALSE /\ running_shot = FALSE
    /\ game_seconds = cfg.game_seconds /\ shot_seconds = cfg.shot_seconds
    /\ game_status = "scheduled"
    /\ last_update = 0
    /\ last_score_data = NoData
    /\ upserted = "none"
    /\ game_buzzer_played = FALSE /\ shot_buzzer_played = FALSE
    /\ buzzer_sound \in BOOLEAN
    /\ played = {}
    /\ pc = "loop" /\ dt = 0 /\ prev_game_seconds = 0 /\ prev_shot_seconds = 0
    /\ loaded = 0

\* No .env: init_supabase_client returns None.
Init == InitEngine /\ supabase_client = FALSE /\ AsideIdle

-----------------------------------------------------------------------------
(* Operator handlers (main thread).                                        *)

Quiet == played' = {}

\* The timer thread sends nothing itself.
NoUpsert == upserted' = "none"

update_score(team, points) ==
    /\ (IF team = "A" THEN scoreA ELSE scoreB) + points <= MaxScore
    /\ IF team = "A"
       THEN scoreA' = raised_count(scoreA, points) /\ UNCHANGED scoreB
       ELSE scoreB' = raised_count(scoreB, points) /\ UNCHANGED scoreA
    /\ UNCHANGED <<foulsA, foulsB, timeoutsA, timeoutsB, period>>
    /\ UNCHANGED <<gameClock, shotClock, cfg, last_update, environment, timerLocals>>
    /\ Quiet
    /\ update_supabase_data

\* update_timeout writing the new count to both teams.
update_timeout_both_teams(team, change) ==
    /\ (IF team = "A" THEN timeoutsA ELSE timeoutsB) + change
            <= cfg.timeouts_per_team
    /\ timeoutsA' = raised_count(IF team = "A" THEN timeoutsA ELSE timeoutsB, change)
    /\ timeoutsB' = timeoutsA'
    /\ UNCHANGED <<scoreA, scoreB, foulsA, foulsB, period>>
    /\ UNCHANGED <<gameClock, shotClock, cfg, last_update, environment, timerLocals>>
    /\ Quiet
    /\ update_supabase_data

\* The program has no upper limit on timeouts either; the model stops
\* raising them at the configured count.
update_timeout(team, change) ==
    /\ (IF team = "A" THEN timeoutsA ELSE timeoutsB) + change
            <= cfg.timeouts_per_team
    /\ IF team = "A"
       THEN timeoutsA' = raised_count(timeoutsA, change) /\ UNCHANGED timeoutsB
       ELSE timeoutsB' = raised_count(timeoutsB, change) /\ UNCHANGED timeoutsA
    /\ UNCHANGED <<scoreA, scoreB, foulsA, foulsB, period>>
    /\ UNCHANGED <<gameClock, shotClock, cfg, last_update, environment, timerLocals>>
    /\ Quiet
    /\ update_supabase_data

update_foul(team, change) ==
    /\ (IF team = "A" THEN foulsA ELSE foulsB) + change <= MaxFouls
    /\ IF team = "A"
       THEN foulsA' = raised_count(foulsA, change) /\ UNCHANGED foulsB
       ELSE foulsB' = raised_count(foulsB, change) /\ UNCHANGED foulsA
    /\ UNCHANGED <<scoreA, scoreB, timeoutsA, timeoutsB, period>>
    /\ UNCHANGED <<gameClock, shotClock, cfg, last_update, environment, timerLocals>>
    /\ Quiet
    /\ update_supabase_data

adjust_period(delta) ==
    /\ period' = adjusted_period(period, delta)
    /\ UNCHANGED <<scoreA, scoreB, foulsA, foulsB, timeoutsA, timeoutsB>>
    /\ UNCHANGED <<gameClock, shotClock, cfg, last_update, environment, timerLocals>>
    /\ Quiet
    /\ update_supabase_data

\* Faulty variant: the reset that forgets to publish the pause.
reset_game_time_keeps_status ==
    /\ game_seconds' = cfg.game_seconds
    /\ running_game' = FALSE
    /\ game_buzzer_played' = FALSE
    /\ UNCHANGED game_status
    /\ UNCHANGED <<counters, shotClock, cfg, last_update, environment, timerLocals>>
    /\ Quiet
    /\ update_supabase_data

reset_game_time ==
    /\ game_seconds' = cfg.game_seconds
    /\ running_game' = FALSE
    /\ game_buzzer_played' = FALSE
    /\ game_status' = "paused"
    /\ UNCHANGED <<counters, shotClock, cfg, last_update, environment, timerLocals>>
    /\ Quiet
    /\ update_supabase_data

\* Faulty variant: the toggle without the reset at zero.
toggle_game_time_flip_only ==
    /\ running_game' = ~running_game
    /\ game_status' = IF running_game' THEN "live" ELSE "paused"
    /\ UNCHANGED <<game_seconds, game_buzzer_played>>
    /\ UNCHANGED <<counters, shotClock, cfg, last_update, environment, timerLocals>>
    /\ Quiet
    /\ update_supabase_data

\* Faulty variant: the toggle resets at zero only once the buzzer has been
\* played.
toggle_game_time_after_buzzer ==
    IF game_seconds = 0 /\ game_buzzer_played
    THEN reset_game_time
    ELSE /\ running_game' = ~running_game
         /\ game_status' = IF running_game' THEN "live" ELSE "paused"
         /\ UNCHANGED <<game_seconds, game_buzzer_played>>
         /\ UNCHANGED <<counters, shotClock, cfg, last_update, environment, timerLocals>>
         /\ Quiet
         /\ update_supabase_data

toggle_game_time ==
    IF game_seconds = 0
    THEN reset_game_time
    ELSE /\ running_game' = ~running_game
         /\ game_status' = IF running_game' THEN "live" ELSE "paused"
         /\ UNCHANGED <<game_seconds, game_buzzer_played>>
         /\ UNCHANGED <<counters, shotClock, cfg, last_update, environment, timerLocals>>
         /\ Quiet
         /\ update_supabase_data

toggle_shot_time ==
    /\ running_shot' = ~running_shot
    /\ UNCHANGED <<shot_seconds, shot_buzzer_played>>
    /\ UNCHANGED <<counters, gameClock, cfg, last_update, environment, timerLocals>>
    /\ Quiet
    /\ update_supabase_data

\* Faulty variant: the latch is cleared whatever the result.
adjust_time_always_clears(seconds) ==
    /\ seconds > 0 => game_seconds + seconds <= Sec(MaxGameSeconds)
    /\ game_seconds' = adjusted_game(game_seconds, seconds)
    /\ game_buzzer_played' = FALSE
    /\ UNCHANGED <<running_game, game_status>>
    /\ UNCHANGED <<counters, shotClock, cfg, last_update, environment, timerLocals>>
    /\ Quiet
    /\ update_supabase_data

adjust_time(seconds) ==
    /\ seconds > 0 => game_seconds + seconds <= Sec(MaxGameSeconds)
    /\ game_seconds' = adjusted_game(game_seconds, seconds)
    /\ game_buzzer_played' = IF game_seconds' > 0 THEN FALSE ELSE game_buzzer_played
    /\ UNCHANGED <<running_game, game_status>>
    /\ UNCHANGED <<counters, shotClock, cfg, last_update, environment, timerLocals>>
    /\ Quiet
    /\ update_supabase_data

\* Faulty variant: an adjustment down to zero latches the buzzer as a
\* crossing would.
adjust_shot_time_latches(delta) ==
    /\ shot_seconds' = adjusted_shot(shot_seconds, delta)
    /\ shot_buzzer_played' = (shot_seconds' = 0)
    /\ UNCHANGED running_shot
    /\ UNCHANGED <<counters, gameClock, cfg, last_update, environment, timerLocals>>
    /\ Quiet
    /\ update_supabase_data

adjust_shot_time(delta) ==
    /\ shot_seconds' = adjusted_shot(shot_seconds, delta)
    /\ shot_buzzer_played' = IF shot_seconds' > 0 THEN FALSE ELSE shot_buzzer_played
    /\ UNCHANGED running_shot
    /\ UNCHANGED <<counters, gameClock, cfg, last_update, environment, timerLocals>>
    /\ Quiet
    /\ update_supabase_data

\* Faulty variant: the reset that leaves the clock running.
reset_shot_to_keeps_running(seconds) ==
    /\ shot_seconds' = seconds
    /\ UNCHANGED running_shot
    /\ shot_buzzer_played' = FALSE
    /\ UNCHANGED <<counters, gameClock, cfg, last_update, environment, timerLocals>>
    /\ Quiet
    /\ update_supabase_data

reset_shot_to(seconds) ==
    /\ shot_seconds' = seconds
    /\ running_shot' = FALSE
    /\ shot_buzzer_played' = FALSE
    /\ UNCHANGED <<counters, gameClock, cfg, last_update, environment, timerLocals>>
    /\ Quiet
    /\ update_supabase_data

reset_shot_clock_14 == reset_shot_to(Sec(14))

reset_shot_clock == reset_shot_to(Sec(24))

\* Faulty variant: reset_all without the two latch assignments.
reset_all_keeps_latches ==
    /\ scoreA' = 0 /\ scoreB' = 0
    /\ period' = 1
    /\ timeoutsA' = cfg.timeouts_per_team
    /\ timeoutsB' = cfg.timeouts_per_team
    /\ foulsA' = 0 /\ foulsB' = 0
    /\ running_game' = FALSE /\ running_shot' = FALSE
    /\ game_seconds' = cfg.game_seconds
    /\ shot_seconds' = cfg.shot_seconds
    /\ game_status' = "scheduled"
    /\ UNCHANGED <<game_buzzer_played, shot_buzzer_played>>
    /\ UNCHANGED <<cfg, last_update, environment, timerLocals>>
    /\ Quiet
    /\ update_supabase_data

reset_all ==
    /\ scoreA' = 0 /\ scoreB' = 0
    /\ period' = 1
    /\ timeoutsA' = cfg.timeouts_per_team
    /\ timeoutsB' = cfg.timeouts_per_team
    /\ foulsA' = 0 /\ foulsB' = 0
    /\ running_game' = FALSE /\ running_shot' = FALSE
    /\ game_seconds' = cfg.game_seconds
    /\ shot_seconds' = cfg.shot_seconds
    /\ game_status' = "scheduled"
    /\ game_buzzer_played' = FALSE /\ shot_buzzer_played' = FALSE
    /\ UNCHANGED <<cfg, last_update, environment, timerLocals>>
    /\ Quiet
    /\ update_supabase_data

\* update_supabase_data as the callback the timer thread queues once a
\* second (lines 1614-1617).
periodic_update ==
    /\ UNCHANGED <<counters, gameClock, shotClock, cfg, last_update,
                   environment, timerLocals>>
    /\ Quiet
    /\ update_supabase_data

\* show_settings.save_settings: the engine fields it writes.
save_settings(game_minutes, timeout_count) ==
    /\ cfg' = [cfg EXCEPT !.game_seconds = Sec(game_minutes * 60),
                          !.timeouts_per_team = timeout_count]
    /\ game_seconds' = cfg'.game_seconds
    /\ timeoutsA' = timeout_count
    /\ timeoutsB' = timeout_count
    /\ UNCHANGED <<scoreA, scoreB, foulsA, foulsB, period>>
    /\ UNCHANGED <<running_game, game_buzzer_played, game_status>>
    /\ UNCHANGED <<shotClock, last_update, environment, timerLocals>>
    /\ Quiet
    /\ update_supabase_data

-----------------------------------------------------------------------------
(* The timer thread, one loop iteration as one step (lines 1576-1619).     *)
(* Lines 1611-1617 only queue callbacks for the main thread: a redraw, and *)
(* once a second update_supabase_data, which returns at line 627 when      *)
(* there is no client.                                                     *)

TickAt(current_time) ==
    /\ pc = "loop"
    /\  LET d == current_time - last_update
            g == tick_clock(running_game, game_seconds, d)
            s == tick_clock(running_shot, shot_seconds, d)
            gdue == /\ tick_guard(running_game, game_seconds)
                    /\ buzzer_due(game_seconds, g, game_buzzer_played)
            sdue == /\ tick_guard(running_shot, shot_seconds)
                    /\ buzzer_due(shot_seconds, s, shot_buzzer_played)
        IN  /\ g > game_seconds => g <= Sec(MaxGameSeconds)
            /\ s > shot_seconds => s <= Sec(MaxShotSeconds)
            /\ last_update' = rebase(current_time, current_time)
            /\ game_seconds' = g
            /\ shot_seconds' = s
            \* play() is called when due; if it raises, the latch stays as it
            \* was (except: print)
            /\ \E game_play_ok \in play_outcomes(gdue),
                  shot_play_ok \in play_outcomes(sdue) :
                /\ game_buzzer_played' = (game_buzzer_played \/ game_play_ok)
                /\ shot_buzzer_played' = (shot_buzzer_played \/ shot_play_ok)
                /\ played' = (IF game_play_ok THEN {"game"} ELSE {})
                                \cup (IF shot_play_ok THEN {"shot"} ELSE {})
    /\ UNCHANGED <<running_game, running_shot, game_status>>
    /\ NoUpsert
    /\ UNCHANGED <<counters, cfg, environment, last_score_data, timerLocals>>

Tick == \E current_time \in Readings : TickAt(current_time)

-----------------------------------------------------------------------------
(* The timer thread one read or write at a time (lines 1576-1619).  pc     *)
(* names the statement the thread executes next.  A local the thread will  *)
(* overwrite before it reads it again (dt, prev_*, the value read at 1584  *)
(* or 1599) is set to 0 where its last use ends.                           *)

\* 1577-1579: current_time = time.time(); dt = ...; self.last_update = ...
\* Here no reading lies before the previous one (Spec has the clock set back).
T_time ==
    /\ pc = "loop"
    /\ \E current_time \in ForwardReadings :
        /\ dt' = current_time - last_update
        /\ last_update' = rebase(current_time, current_time)
    /\ pc' = "game_guard"
    /\ Quiet
    /\ NoUpsert
    /\ UNCHANGED <<counters, gameClock, shotClock, cfg, environment,
                   last_score_data, prev_game_seconds, prev_shot_seconds, loaded>>

\* 1582: if self.running_game and self.game_seconds > 0:
T_game_guard ==
    /\ pc = "game_guard"
    /\ pc' = IF tick_guard(running_game, game_seconds) THEN "game_prev" ELSE "shot_guard"
    /\ Quiet
    /\ NoUpsert
    /\ UNCHANGED <<counters, gameClock, shotClock, cfg, last_update, environment,
                   last_score_data, dt, prev_game_seconds, prev_shot_seconds, loaded>>

\* 1583: prev_game_seconds = self.game_seconds
T_game_prev ==
    /\ pc = "game_prev"
    /\ prev_game_seconds' = game_seconds
    /\ pc' = "game_load"
    /\ Quiet
    /\ NoUpsert
    /\ UNCHANGED <<counters, gameClock, shotClock, cfg, last_update, environment,
                   last_score_data, dt, prev_shot_seconds, loaded>>

\* 1584, the read of self.game_seconds
T_game_load ==
    /\ pc = "game_load"
    /\ loaded' = game_seconds
    /\ pc' = "game_store"
    /\ Quiet
    /\ NoUpsert
    /\ UNCHANGED <<counters, gameClock, shotClock, cfg, last_update, environment,
                   last_score_data, dt, prev_game_seconds, prev_shot_seconds>>

\* 1584, the write: self.game_seconds = max(0, <read> - dt)
T_game_store ==
    /\ pc = "game_store"
    /\ tick_value(loaded, dt) > loaded => tick_value(loaded, dt) <= Sec(MaxGameSeconds)
    /\ game_seconds' = tick_value(loaded, dt)
    /\ loaded' = 0
    /\ pc' = "game_buzz"
    /\ Quiet
    /\ UNCHANGED <<running_game, game_buzzer_played, game_status>>
    /\ NoUpsert
    /\ UNCHANGED <<counters, shotClock, cfg, last_update, environment,
                   last_score_data, dt, prev_game_seconds, prev_shot_seconds>>

\* 1587-1594: the game buzzer
T_game_buzz ==
    /\ pc = "game_buzz"
    /\ \E play_ok \in play_outcomes(buzzer_due(prev_game_seconds, game_seconds,
                                                game_buzzer_played)) :
        /\ game_buzzer_played' = (game_buzzer_played \/ play_ok)
        /\ played' = IF play_ok THEN {"game"} ELSE {}
    /\ prev_game_seconds' = 0
    /\ pc' = "shot_guard"
    /\ UNCHANGED <<game_seconds, running_game, game_status>>
    /\ NoUpsert
    /\ UNCHANGED <<counters, shotClock, cfg, last_update, environment,
                   last_score_data, dt, prev_shot_seconds, loaded>>

\* 1597: if self.running_shot and self.shot_seconds > 0:
T_shot_guard ==
    /\ pc = "shot_guard"
    /\ pc' = IF tick_guard(running_shot, shot_seconds) THEN "shot_prev" ELSE "loop"
    /\ dt' = IF pc' = "loop" THEN 0 ELSE dt
    /\ Quiet
    /\ NoUpsert
    /\ UNCHANGED <<counters, gameClock, shotClock, cfg, last_update, environment,
                   last_score_data, prev_game_seconds, prev_shot_seconds, loaded>>

\* 1598: prev_shot_seconds = self.shot_seconds
T_shot_prev ==
    /\ pc = "shot_prev"
    /\ prev_shot_seconds' = shot_seconds
    /\ pc' = "shot_load"
    /\ Quiet
    /\ NoUpsert
    /\ UNCHANGED <<counters, gameClock, shotClock, cfg, last_update, environment,
                   last_score_data, dt, prev_game_seconds, loaded>>

\* 1599, the read of self.shot_seconds
T_shot_load ==
    /\ pc = "shot_load"
    /\ loaded' = shot_seconds
    /\ pc' = "shot_store"
    /\ Quiet
    /\ NoUpsert
    /\ UNCHANGED <<counters, gameClock, shotClock, cfg, last_update, environment,
                   last_score_data, dt, prev_game_seconds, prev_shot_seconds>>

\* 1599, the write: self.shot_seconds = max(0, <read> - dt)
T_shot_store ==
    /\ pc = "shot_store"
    /\ tick_value(loaded, dt) > loaded => tick_value(loaded, dt) <= Sec(MaxShotSeconds)
    /\ shot_seconds' = tick_value(loaded, dt)
    /\ loaded' = 0
    /\ dt' = 0
    /\ pc' = "shot_buzz"
    /\ Quiet
    /\ UNCHANGED <<running_shot, shot_buzzer_played>>
    /\ NoUpsert
    /\ UNCHANGED <<counters, gameClock, cfg, last_update, environment,
                   last_score_data, prev_game_seconds, prev_shot_seconds>>

\* 1602-1609: the shot buzzer; then 1611-1619 (redraw request, sleep)
T_shot_buzz ==
    /\ pc = "shot_buzz"
    /\ \E play_ok \in play_outcomes(buzzer_due(prev_shot_seconds, shot_seconds,
                                                shot_buzzer_played)) :
        /\ shot_buzzer_played' = (shot_buzzer_played \/ play_ok)
        /\ played' = IF play_ok THEN {"shot"} ELSE {}
    /\ prev_shot_seconds' = 0
    /\ pc' = "loop"
    /\ UNCHANGED <<shot_seconds, running_shot>>
    /\ NoUpsert
    /\ UNCHANGED <<counters, gameClock, cfg, last_update, environment,
                   last_score_data, dt, prev_game_seconds, loaded>>

timer_thread ==
    \/ T_time
    \/ T_game_guard \/ T_game_prev \/ T_game_load \/ T_game_store \/ T_game_buzz
    \/ T_shot_guard \/ T_shot_prev \/ T_shot_load \/ T_shot_store \/ T_shot_buzz

-----------------------------------------------------------------------------
Next ==
    \/ Tick /\ UNCHANGED aside
    \/ toggle_game_time /\ UNCHANGED aside
    \/ toggle_shot_time /\ UNCHANGED aside
    \/ reset_game_time /\ UNCHANGED aside
    \/ \E seconds \in GameDeltas : adjust_time(seconds) /\ UNCHANGED aside
    \/ \E delta \in ShotDeltas : adjust_shot_time(delta) /\ UNCHANGED aside
    \/ reset_shot_clock_14 /\ UNCHANGED aside
    \/ reset_shot_clock /\ UNCHANGED aside
    \/ reset_all /\ UNCHANGED aside
    \/ \E m \in GameMinutes, c \in TimeoutCounts : save_settings(m, c) /\ UNCHANGED aside

Spec == Init /\ [][Next]_vars

\* The same program with the timer thread pre-empted between its reads and
\* writes.  Each handler of the main thread is still one step: every
\* behaviour of SpecConc is an interleaving the interpreter can produce.
\* The sound is loaded, the shot clock starts at 24 s and is only lowered by
\* the operator's adjustments.
InitConc ==
    /\ InitEngine
    /\ supabase_client = FALSE
    /\ buzzer_sound = TRUE
    /\ cfg.shot_seconds = Sec(24)
    /\ AsideIdle

NextConc ==
    \/ timer_thread /\ UNCHANGED aside
    \/ toggle_game_time /\ UNCHANGED aside
    \/ toggle_shot_time /\ UNCHANGED aside
    \/ reset_game_time /\ UNCHANGED aside
    \/ \E seconds \in GameDeltas : adjust_time(seconds) /\ UNCHANGED aside
    \/ \E delta \in {d \in ShotDeltas : d < 0} : adjust_shot_time(delta) /\ UNCHANGED aside
    \/ reset_shot_clock_14 /\ UNCHANGED aside
    \/ reset_shot_clock /\ UNCHANGED aside
    \/ reset_all /\ UNCHANGED aside

SpecConc == InitConc /\ [][NextConc]_vars

\* The timer thread, statement by statement, against the operator's clock
\* adjustments alone (and the two toggles that start the clocks).
NextAdjust ==
    \/ timer_thread /\ UNCHANGED aside
    \/ toggle_game_time /\ UNCHANGED aside
    \/ toggle_shot_time /\ UNCHANGED aside
    \/ \E seconds \in GameDeltas : adjust_time(seconds) /\ UNCHANGED aside
    \/ \E delta \in {d \in ShotDeltas : d < 0} : adjust_shot_time(delta) /\ UNCHANGED aside

SpecAdjust == InitConc /\ [][NextAdjust]_vars

\* The timer thread, statement by statement, against the operator's resets
\* alone (and the two toggles that start the clocks).
NextReset ==
    \/ timer_thread /\ UNCHANGED aside
    \/ toggle_game_time /\ UNCHANGED aside
    \/ toggle_shot_time /\ UNCHANGED aside
    \/ reset_game_time /\ UNCHANGED aside
    \/ reset_shot_clock_14 /\ UNCHANGED aside
    \/ reset_shot_clock /\ UNCHANGED aside
    \/ reset_all /\ UNCHANGED aside

SpecReset == InitConc /\ [][NextReset]_vars

-----------------------------------------------------------------------------
(* Properties.                                                             *)

\* A tick that takes the running game (shot) clock from above zero to zero.
\* The bookkeeping of a game: the score, foul, timeout and period handlers
\* next to a game clock that is started, paused, ticked and reset.  The
\* sound is loaded and the shot clock stays at 24 s.
InitBook ==
    /\ InitEngine
    /\ supabase_client = FALSE
    /\ buzzer_sound = TRUE
    /\ cfg.shot_seconds = Sec(24)
    /\ AsideIdle

NextBook ==
    \/ \E team \in Teams, points \in ScorePoints : update_score(team, points) /\ UNCHANGED aside
    \/ \E team \in Teams, change \in CountChanges : update_timeout(team, change) /\ UNCHANGED aside
    \/ \E team \in Teams, change \in CountChanges : update_foul(team, change) /\ UNCHANGED aside
    \/ \E delta \in PeriodDeltas : adjust_period(delta) /\ UNCHANGED aside
    \/ toggle_game_time /\ UNCHANGED aside
    \/ Tick /\ UNCHANGED aside
    \/ reset_all /\ UNCHANGED aside

SpecBook == InitBook /\ [][NextBook]_vars

\* The three counter handlers next to a game clock that is started, paused
\* and ticked.
NextCount ==
    \/ \E team \in Teams, points \in ScorePoints : update_score(team, points) /\ UNCHANGED aside
    \/ \E team \in Teams, change \in CountChanges : update_timeout(team, change) /\ UNCHANGED aside
    \/ \E team \in Teams, change \in CountChanges : update_foul(team, change) /\ UNCHANGED aside
    \/ toggle_game_time /\ UNCHANGED aside
    \/ Tick /\ UNCHANGED aside

SpecCount == InitBook /\ [][NextCount]_vars

\* The operations scoreboard.py and scoreboard_tkinter.py both have, and
\* the timer.  The sound is loaded and the shot clock starts at 24 s;
\* timeouts are changed for team A and fouls for team B.
NextShared ==
    \/ \E team \in Teams, points \in ScorePoints : update_score(team, points) /\ UNCHANGED aside
    \/ \E change \in CountChanges : update_timeout("A", change) /\ UNCHANGED aside
    \/ \E change \in CountChanges : update_foul("B", change) /\ UNCHANGED aside
    \/ \E delta \in PeriodDeltas : adjust_period(delta) /\ UNCHANGED aside
    \/ toggle_game_time /\ UNCHANGED aside
    \/ toggle_shot_time /\ UNCHANGED aside
    \/ \E seconds \in GameDeltas : adjust_time(seconds) /\ UNCHANGED aside
    \/ reset_shot_clock /\ UNCHANGED aside
    \/ reset_all /\ UNCHANGED aside
    \/ Tick /\ UNCHANGED aside

SpecShared == InitBook /\ [][NextShared]_vars

\* The program with and without its collaborators: the sound may be
\* missing and play() may raise, a Supabase client may exist and its upsert
\* may fail.  The wall clock goes forward; the shot clock starts at 24 s.
InitEnv ==
    /\ InitEngine
    /\ supabase_client \in BOOLEAN
    /\ cfg.shot_seconds = Sec(24)
    /\ AsideIdle

\* The scores the operator brings team A to here: a basket of three points
\* and back to nothing.
EnvScores == {0, 3}

NextEnv ==
    \/ \E current_time \in ForwardReadings : TickAt(current_time) /\ UNCHANGED aside
    \/ periodic_update /\ UNCHANGED aside
    \/ \E points \in ScorePoints :
            /\ raised_count(scoreA, points) \in EnvScores
            /\ update_score("A", points) /\ UNCHANGED aside
    \/ toggle_game_time /\ UNCHANGED aside
    \/ toggle_shot_time /\ UNCHANGED aside
    \/ \E seconds \in {d \in GameDeltas : d < 0} : adjust_time(seconds) /\ UNCHANGED aside
    \/ reset_shot_clock /\ UNCHANGED aside
    \/ reset_all /\ UNCHANGED aside

SpecEnv == InitEnv /\ [][NextEnv]_vars

-----------------------------------------------------------------------------
(* The mirror to Supabase with a client whose upserts succeed.  The timer  *)
(* loop queues update_supabase_data on the Tk event queue once a second    *)
(* (lines 1614-1617); the main thread runs the queued callbacks.  Times    *)
(* are kept relative to the last reading, supabase_update_timer included.  *)

\* Readings half a second, and MaxReading half seconds, after the last one.
SyncReadings == {0, 1, MaxReading}

\* 1615: current_time - self.supabase_update_timer >= self.supabase_update_interval
update_due(current_time) == current_time - supabase_update_timer >= Sec(1)

\* One iteration of the timer loop, lines 1577-1617.  Callbacks beyond
\* MaxQueued join the last one queued.
TimerLoop(current_time) ==
    /\ TickAt(current_time)
    /\ IF update_due(current_time)
       THEN /\ supabase_update_timer' = rebase(current_time, current_time)
            /\ after_queue' = Min(MaxQueued, after_queue + 1)
       ELSE /\ supabase_update_timer' = rebase(current_time, supabase_update_timer)
            /\ UNCHANGED after_queue
    /\ UNCHANGED <<fp, screens>>

\* The callback at the head of the queue dropped without being run.
run_queued_update_dropped ==
    /\ after_queue > 0
    /\ after_queue' = after_queue - 1
    /\ UNCHANGED <<engine, fp, supabase_update_timer, screens>>

\* The main thread runs the callback at the head of the queue.
run_queued_update ==
    /\ after_queue > 0
    /\ after_queue' = after_queue - 1
    /\ periodic_update
    /\ UNCHANGED <<fp, supabase_update_timer, screens>>

\* update_live_score_to_supabase returned True if it was called.
UpsertSucceeds == upserted' # "failed"

InitSync ==
    /\ InitEngine
    /\ supabase_client = TRUE
    /\ buzzer_sound = TRUE
    /\ cfg.shot_seconds = Sec(24)
    /\ AsideIdle

NextSync ==
    \/ \E current_time \in SyncReadings : TimerLoop(current_time)
    \/ run_queued_update /\ UpsertSucceeds
    \/ \E points \in ScorePoints :
            /\ raised_count(scoreA, points) \in EnvScores
            /\ update_score("A", points) /\ UpsertSucceeds /\ UNCHANGED aside
    \/ toggle_game_time /\ UpsertSucceeds /\ UNCHANGED aside
    \/ reset_all /\ UpsertSucceeds /\ UNCHANGED aside

\* The timer loop keeps running while time passes (it sleeps 1/60 s per
\* iteration), and the Tk main loop keeps serving its event queue.
SpecSync ==
    /\ InitSync /\ [][NextSync]_vars
    /\ WF_vars(\E current_time \in SyncReadings :
                    current_time > 0 /\ TimerLoop(current_time))
    /\ WF_vars(run_queued_update /\ UpsertSucceeds)

-----------------------------------------------------------------------------
(* database.py: the window of game dates that get_games_by_month_range     *)
(* asks for.  A datetime is a record of year, month, day and the minute of *)
(* its day; strftime("%Y-%m-%d") keeps <<year, month, day>>, which the     *)
(* query compares in that order.                                           *)

is_leap(year) == year % 4 = 0 /\ (year % 100 # 0 \/ year % 400 = 0)

days_in_month(year, month) ==
    IF month = 2 THEN (IF is_leap(year) THEN 29 ELSE 28)
    ELSE IF month \in {4, 6, 9, 11} THEN 30 ELSE 31

\* datetime.replace(day=n)
replace_day(date, n) == [date EXCEPT !.day = n]

\* date + timedelta(days=1) and date - timedelta(days=1)
next_day(date) ==
    IF date.day < days_in_month(date.year, date.month)
    THEN [date EXCEPT !.day = @ + 1]
    ELSE IF date.month < 12
         THEN [date EXCEPT !.month = @ + 1, !.day = 1]
         ELSE [date EXCEPT !.year = @ + 1, !.month = 1, !.day = 1]

previous_day(date) ==
    IF date.day > 1
    THEN [date EXCEPT !.day = @ - 1]
    ELSE IF date.month > 1
         THEN [date EXCEPT !.month = @ - 1,
                           !.day = days_in_month(date.year, date.month - 1)]
         ELSE [date EXCEPT !.year = @ - 1, !.month = 12, !.day = 31]

\* date + timedelta(days=n), n of either sign
RECURSIVE timedelta_days(_, _)
timedelta_days(date, n) ==
    IF n = 0 THEN date
    ELSE IF n > 0 THEN timedelta_days(next_day(date), n - 1)
    ELSE timedelta_days(previous_day(date), n + 1)

\* strftime("%Y-%m-%d")
strftime_ymd(date) == <<date.year, date.month, date.day>>

\* Lines 36-40 and 47-49: the bounds handed to .gte and .lte.
prev_month_start(current_date) ==
    replace_day(timedelta_days(replace_day(current_date, 1), -1), 1)

next_month_end(current_date) ==
    LET next_month == timedelta_days(replace_day(current_date, 28), 4)
    IN  timedelta_days(next_month, -next_month.day)

get_games_by_month_range ==
    /\ month_query.stage = "called"
    /\ month_query' =
          [month_query EXCEPT
              !.stage = "queried",
              !.gte = strftime_ymd(prev_month_start(month_query.current_date)),
              !.lte = strftime_ymd(next_month_end(month_query.current_date))]
    /\ UNCHANGED <<engine, fp, sync, listing, selection>>

\* The days on which the selection screen is opened, early and late.
Years == {2023, 2024}
Dates ==
    {[year |-> y, month |-> m, day |-> d, minute |-> t] :
        y \in Years, m \in 1..12, d \in 1..31, t \in {0, 1439}}
    \ {date \in [year : Years, month : 1..12, day : 1..31, minute : {0, 1439}] :
            date.day > days_in_month(date.year, date.month)}

InitMonth ==
    /\ InitEngine
    /\ supabase_client = FALSE
    /\ buzzer_sound = TRUE
    /\ cfg.shot_seconds = Sec(24)
    /\ fp = FloatIdle /\ SyncIdle
    /\ listing = ListingIdle /\ selection = SelectionIdle
    /\ \E current_date \in Dates :
          month_query = [stage |-> "called", current_date |-> current_date,
                         gte |-> << >>, lte |-> << >>]

NextMonth == get_games_by_month_range

SpecMonth == InitMonth /\ [][NextMonth]_vars

-----------------------------------------------------------------------------
(* database.py: make_display_items.  A game is a record of its id and its  *)
(* game_date string; the string is a record of its form and of the day     *)
(* (counted from the day the screen is opened) and minute it spells.  A    *)
(* datetime is a record of day and minute.                                  *)

None == [none |-> TRUE]
QuickStart == [text |-> "quick start", game |-> None]

\* The forms of game_date: "2024-05-01", "2024-05-01 19:00", and two that
\* strptime rejects, "2024-05-01T19:00:00" (no blank, not %Y-%m-%d) and
\* "2024-05-01 19:00:00" (a blank, but not %Y-%m-%d %H:%M).
DateForms == {"ymd", "ymd hm", "ymdThms", "ymd hms"}

\* Lines 152-155: strptime with the format chosen by the blank; ok is FALSE
\* where it raises ValueError.
strptime(game_date_str) ==
    IF game_date_str.form = "ymd hm"
    THEN [ok |-> TRUE, day |-> game_date_str.day, minute |-> game_date_str.minute]
    ELSE IF game_date_str.form = "ymd"
    THEN [ok |-> TRUE, day |-> game_date_str.day, minute |-> 0]
    ELSE [ok |-> FALSE, day |-> 0, minute |-> 0]

\* replace(hour=0, minute=0, second=0, microsecond=0)
midnight(datetime) == [day |-> datetime.day, minute |-> 0]

\* The order of datetimes.
before_or_at(a, b) ==
    a.day < b.day \/ (a.day = b.day /\ a.minute <= b.minute)

\* Lines 160-172: the text shows the month and day and the two teams.
display_text(game, game_date) ==
    [date_str |-> game_date.day, teams |-> game.id]

\* Lines 149-185: the items of the games on one side of today, in the order
\* of the list; a game whose date does not parse is skipped.
RECURSIVE classified(_, _, _)
classified(games, today, future) ==
    IF games = << >> THEN << >>
    ELSE LET game == Head(games)
             parsed == strptime(game.game_date)
             game_date == [day |-> parsed.day, minute |-> parsed.minute]
             rest == classified(Tail(games), today, future)
         IN  IF parsed.ok /\ (before_or_at(today, midnight(game_date)) <=> future)
             THEN <<[text |-> display_text(game, game_date), game |-> game,
                     date |-> game_date]>> \o rest
             ELSE rest

\* list.sort(key=date, reverse=...) that ignores reverse.
sorted_position_ascending(sorted, item, reverse) ==
    Cardinality({i \in 1..Len(sorted) : before_or_at(sorted[i].date, item.date)})

\* list.sort is stable, also with reverse=True: an item goes behind every
\* item that does not have to come after it.
sorted_position(sorted, item, reverse) ==
    Cardinality({i \in 1..Len(sorted) :
                    IF reverse THEN before_or_at(item.date, sorted[i].date)
                    ELSE before_or_at(sorted[i].date, item.date)})

RECURSIVE sort_by_date(_, _)
sort_by_date(items, reverse) ==
    IF items = << >> THEN << >>
    ELSE LET item == items[Len(items)]
             sorted == sort_by_date(SubSeq(items, 1, Len(items) - 1), reverse)
             k == sorted_position(sorted, item, reverse)
         IN  SubSeq(sorted, 1, k) \o <<item>> \o SubSeq(sorted, k + 1, Len(sorted))

\* Lines 194-198: the date is dropped from the items returned.
RECURSIVE text_and_game(_)
text_and_game(items) ==
    IF items = << >> THEN << >>
    ELSE <<[text |-> Head(items).text, game |-> Head(items).game]>>
            \o text_and_game(Tail(items))

make_display_items(games, now) ==
    LET today == midnight(now)
        future_games == sort_by_date(classified(games, today, TRUE), FALSE)
        past_games == sort_by_date(classified(games, today, FALSE), TRUE)
    IN  <<QuickStart>> \o text_and_game(future_games) \o text_and_game(past_games)

call_make_display_items ==
    /\ listing.stage = "called"
    /\ listing' = [listing EXCEPT
                      !.stage = "returned",
                      !.items = make_display_items(listing.games, listing.now)]
    /\ UNCHANGED <<engine, fp, sync, month_query, selection>>

\* game_date strings: yesterday, today and tomorrow, in the morning or the
\* evening, in every form.
GameDates ==
    {[form |-> "ymd", day |-> d, minute |-> 0] : d \in {-1, 0, 1}}
    \cup {[form |-> "ymd hm", day |-> d, minute |-> t] :
                d \in {-1, 0, 1}, t \in {600, 1140}}
    \cup {[form |-> f, day |-> 0, minute |-> 0] : f \in {"ymdThms", "ymd hms"}}

\* The rows of the query: ids 1, 2, ... in the order returned.
GameLists ==
    UNION {{[i \in 1..n |-> [id |-> i, game_date |-> dates[i]]] :
                dates \in [1..n -> GameDates]} : n \in 0..MaxGames}

InitItems ==
    /\ InitEngine
    /\ supabase_client = FALSE
    /\ buzzer_sound = TRUE
    /\ cfg.shot_seconds = Sec(24)
    /\ fp = FloatIdle /\ SyncIdle
    /\ month_query = QueryIdle /\ selection = SelectionIdle
    /\ \E games \in GameLists, t \in {0, 900} :
          listing = [stage |-> "called", games |-> games,
                     now |-> [day |-> 0, minute |-> t], items |-> << >>]

NextItems == call_make_display_items

SpecItems == InitItems /\ [][NextItems]_vars

-----------------------------------------------------------------------------
(* game_selection.py: the key loop of show_game_selection (lines 81-173).  *)
(* selection holds the locals of the function; indexes count from 0 as in  *)
(* the source.                                                             *)

max_visible_games == 8

\* Lines 43-45: the quick-start entry followed by the games listed.
display_items(total_games) ==
    [i \in 0..(total_games - 1) |->
        IF i = 0 THEN QuickStart
        ELSE [text |-> display_text([id |-> i], [day |-> 0, minute |-> 0]),
              game |-> [id |-> i]]]

\* K_DOWN without the scroll adjustment of lines 164-165.
K_DOWN_without_scroll ==
    /\ selection.stage = "open"
    /\ selection' =
          IF selection.selected_index < selection.total_games - 1
          THEN [selection EXCEPT !.selected_index = @ + 1]
          ELSE selection
    /\ UNCHANGED <<engine, fp, sync, month_query, listing>>

\* Lines 154-159
K_UP ==
    /\ selection.stage = "open"
    /\ selection' =
          IF selection.selected_index > 0
          THEN LET index == selection.selected_index - 1
               IN  [selection EXCEPT
                       !.selected_index = index,
                       !.scroll_offset = IF index < @ THEN index ELSE @]
          ELSE selection
    /\ UNCHANGED <<engine, fp, sync, month_query, listing>>

\* Lines 160-165
K_DOWN ==
    /\ selection.stage = "open"
    /\ selection' =
          IF selection.selected_index < selection.total_games - 1
          THEN LET index == selection.selected_index + 1
               IN  [selection EXCEPT
                       !.selected_index = index,
                       !.scroll_offset =
                           IF index >= @ + max_visible_games
                           THEN index - max_visible_games + 1 ELSE @]
          ELSE selection
    /\ UNCHANGED <<engine, fp, sync, month_query, listing>>

\* Lines 166-171.  The argument of dlog is an f-string, evaluated before
\* dlog is called and whatever DEBUG is: chosen.get('id') raises
\* AttributeError when chosen is None.
K_RETURN ==
    /\ selection.stage = "open"
    /\ selection' =
          IF selection.selected_index < selection.total_games
          THEN LET chosen ==
                     display_items(selection.total_games)[selection.selected_index].game
               IN  IF chosen = None
                   THEN [selection EXCEPT !.stage = "raised",
                                          !.result = "AttributeError"]
                   ELSE [selection EXCEPT !.stage = "returned",
                                          !.result = <<chosen>>]
          ELSE selection
    /\ UNCHANGED <<engine, fp, sync, month_query, listing>>

\* Lines 172-173
K_ESCAPE ==
    /\ selection.stage = "open"
    /\ selection' = [selection EXCEPT !.stage = "returned", !.result = <<None>>]
    /\ UNCHANGED <<engine, fp, sync, month_query, listing>>

InitSelect ==
    /\ InitEngine
    /\ supabase_client = FALSE
    /\ buzzer_sound = TRUE
    /\ cfg.shot_seconds = Sec(24)
    /\ fp = FloatIdle /\ SyncIdle
    /\ month_query = QueryIdle /\ listing = ListingIdle
    /\ \E total_games \in 1..MaxListed, debug \in BOOLEAN :
          selection = [stage |-> "open", DEBUG |-> debug,
                       total_games |-> total_games,
                       selected_index |-> 0, scroll_offset |-> 0,
                       result |-> << >>]

NextSelect ==
    \/ K_UP
    \/ K_DOWN
    \/ K_RETURN
    \/ K_ESCAPE

SpecSelect == InitSelect /\ [][NextSelect]_vars

-----------------------------------------------------------------------------
(* One clock in floating point.  The clocks are Python floats: the timer's *)
(* self.game_seconds - dt and a caller's dt1 + dt2 are rounded to the      *)
(* nearest float, ties to even.  The model keeps that rounding with a      *)
(* significand of MantissaBits bits instead of 53: a value is a whole      *)
(* number of units of the smallest step, and the floats are the numbers    *)
(* that fl leaves alone.  fp holds a start value v0, two elapsed times d1  *)
(* and d2, the clock ticked by d1 and then d2 (split), and the clock       *)
(* ticked once by d1 + d2 (single).                                        *)

InitFloat ==
    /\ InitEngine
    /\ supabase_client = FALSE
    /\ buzzer_sound = TRUE
    /\ cfg.shot_seconds = Sec(24)
    /\ \E v \in Floats, a \in Floats, b \in Floats :
          fp = [v0 |-> v, d1 |-> a, d2 |-> b, split |-> v, single |-> v,
                ticks |-> 0, merged |-> FALSE]
    /\ SyncIdle /\ ScreensIdle

\* The next of the two ticks, d1 then d2.
SplitTick ==
    /\ fp.ticks < 2
    /\ fp' = [fp EXCEPT
                !.split = float_tick(@, IF fp.ticks = 0 THEN fp.d1 ELSE fp.d2),
                !.ticks = @ + 1]
    /\ UNCHANGED <<engine, sync, screens>>

\* The one tick of dt1 + dt2.
SingleTick ==
    /\ ~fp.merged
    /\ fp' = [fp EXCEPT !.single = float_tick(@, fl(fp.d1 + fp.d2)),
                        !.merged = TRUE]
    /\ UNCHANGED <<engine, sync, screens>>

NextFloat ==
    \/ SplitTick
    \/ SingleTick

SpecFloat == InitFloat /\ [][NextFloat]_vars

-----------------------------------------------------------------------------
GameCrossing == running_game /\ game_seconds > 0 /\ game_seconds' = 0 /\ Tick
ShotCrossing == running_shot /\ shot_seconds > 0 /\ shot_seconds' = 0 /\ Tick

\* C1: in every reachable state both clocks are non-negative, whatever ticks
\* and operator operations (adjustments, toggles, resets, reset_all, settings
\* save) led there.
C1_ClocksNonNegative == game_seconds >= 0 /\ shot_seconds >= 0

\* Both clocks have been run down to zero by ticks (both buzzers latched).
C1_Witness ==
    /\ game_seconds = 0 /\ shot_seconds = 0
    /\ game_buzzer_played /\ shot_buzzer_played

\* C2: a tick that takes a running clock from above zero to exactly zero
\* leaves that clock's running flag false.
C2_TickStopsClockAtZero ==
    [][ /\ GameCrossing => ~running_game'
        /\ ShotCrossing => ~running_shot' ]_vars

\* C3: the buzzer of a clock sounds only in a step that takes the clock from
\* above zero to zero, and a tick on a clock that is at zero leaves it at zero
\* and sounds no buzzer for it.
C3_BuzzerOncePerCrossing ==
    [][ /\ "game" \in played' => game_seconds > 0 /\ game_seconds' = 0
        /\ "shot" \in played' => shot_seconds > 0 /\ shot_seconds' = 0
        /\ game_seconds = 0 /\ Tick => game_seconds' = 0 /\ "game" \notin played'
        /\ shot_seconds = 0 /\ Tick => shot_seconds' = 0 /\ "shot" \notin played'
      ]_vars

\* The step before was a tick (the shot buzzer sounded in it) taken while the
\* game clock, still running, already sat at zero with its buzzer latched.
C3_Witness ==
    /\ played = {"shot"}
    /\ game_seconds = 0 /\ running_game /\ game_buzzer_played

\* C4: every tick that takes a running clock from above zero to zero sounds
\* that clock's buzzer.
C4_BuzzerAtEveryCrossing ==
    [][ /\ GameCrossing => "game" \in played'
        /\ ShotCrossing => "shot" \in played' ]_vars

\* C5: no state shows a clock at zero with its running flag true and its
\* buzzer latch false.
C5_NoTornState ==
    /\ ~(game_seconds = 0 /\ running_game /\ ~game_buzzer_played)
    /\ ~(shot_seconds = 0 /\ running_shot /\ ~shot_buzzer_played)

\* C6: a tick leaves the value of a clock that is not running unchanged.
C6_PausedClockKeepsValue ==
    [][ /\ ~running_game /\ Tick => game_seconds' = game_seconds
        /\ ~running_shot /\ Tick => shot_seconds' = shot_seconds ]_vars

\* The step before was a tick (the shot buzzer sounded in it) taken while the
\* game clock was paused above zero.
C6_Witness ==
    /\ played = {"shot"}
    /\ ~running_game /\ game_seconds > 0

\* C7: no tick raises a clock (the dt of the timer loop is never negative).
C7_TickNeverRaisesClock ==
    [][ Tick => game_seconds' <= game_seconds /\ shot_seconds' <= shot_seconds ]_vars

\* C8: toggle_shot_time on a shot clock at zero resets it to its full
\* duration, not running.
C8_ShotToggleAtZeroResets ==
    [][ toggle_shot_time /\ shot_seconds = 0
            => shot_seconds' = cfg.shot_seconds /\ ~running_shot' ]_vars

\* C9: toggle_game_time at zero sets the game clock to the configured
\* duration, stopped, latch cleared; above zero it flips running_game and
\* leaves the value and the latch as they were.
C9_GameToggle ==
    [][ toggle_game_time =>
            IF game_seconds = 0
            THEN /\ game_seconds' = cfg.game_seconds
                 /\ ~running_game'
                 /\ ~game_buzzer_played'
            ELSE /\ running_game' = ~running_game
                 /\ game_seconds' = game_seconds
                 /\ game_buzzer_played' = game_buzzer_played ]_vars

\* The game clock paused above zero with its latch still set: a latch set at a
\* crossing, a value raised by a settings save, and a toggle that paused the
\* clock without touching either (a reset or an adjustment clears the latch).
C9_Witness ==
    /\ ~running_game /\ game_status = "paused"
    /\ game_seconds > 0 /\ game_buzzer_played

\* C10: in every reachable state the shot clock is at most the cap of 99 s.
C10_ShotWithinCap == shot_seconds <= Sec(99)

\* C11: adjust_time and adjust_shot_time set their clock to the clamped sum
\* and clear that clock's latch exactly when the result is above zero; a
\* result of zero leaves the latch as it was.  The other clock's value and
\* latch are not touched.
C11_AdjustClearsLatchAboveZero ==
    [][ /\ \A seconds \in GameDeltas :
              adjust_time(seconds) =>
                  /\ game_seconds' = Max(0, game_seconds + seconds)
                  /\ game_buzzer_played' =
                        (IF game_seconds' > 0 THEN FALSE ELSE game_buzzer_played)
                  /\ UNCHANGED <<shot_seconds, shot_buzzer_played>>
        /\ \A delta \in ShotDeltas :
              adjust_shot_time(delta) =>
                  /\ shot_seconds' = Max(0, Min(Sec(99), shot_seconds + delta))
                  /\ shot_buzzer_played' =
                        (IF shot_seconds' > 0 THEN FALSE ELSE shot_buzzer_played)
                  /\ UNCHANGED <<game_seconds, game_buzzer_played>>
      ]_vars

\* The game clock brought to zero by adjust_time alone, never started since
\* start-up or reset_all: the latch stayed as it was, while the shot clock
\* keeps the latch its own crossing set.
C11_Witness ==
    /\ game_status = "scheduled" /\ game_seconds = 0 /\ ~game_buzzer_played
    /\ shot_seconds = 0 /\ shot_buzzer_played

\* C13: each single-clock reset sets its clock to its target (24 s, 14 s,
\* the configured game duration), stops that clock and clears its latch; the
\* other clock's value, running flag and latch stay as they were.
C13_SingleClockResets ==
    [][ /\ reset_shot_clock =>
              /\ shot_seconds' = Sec(24) /\ ~running_shot' /\ ~shot_buzzer_played'
              /\ UNCHANGED <<game_seconds, running_game, game_buzzer_played>>
        /\ reset_shot_clock_14 =>
              /\ shot_seconds' = Sec(14) /\ ~running_shot' /\ ~shot_buzzer_played'
              /\ UNCHANGED <<game_seconds, running_game, game_buzzer_played>>
        /\ reset_game_time =>
              /\ game_seconds' = cfg.game_seconds
              /\ ~running_game' /\ ~game_buzzer_played'
              /\ UNCHANGED <<shot_seconds, running_shot, shot_buzzer_played>>
      ]_vars

\* The shot clock reset to 14 s next to a game clock that is still running
\* at zero with its latch set.
C13_Witness ==
    /\ shot_seconds = Sec(14) /\ ~running_shot /\ ~shot_buzzer_played
    /\ game_seconds = 0 /\ running_game /\ game_buzzer_played

\* C16: a buzzer is played, and a latch goes from false to true, only in a
\* step of the timer's tick; no operator operation does either.
C16_OnlyTickBuzzes ==
    [][ (\/ played' # {}
         \/ ~game_buzzer_played /\ game_buzzer_played'
         \/ ~shot_buzzer_played /\ shot_buzzer_played') => Tick ]_vars

\* Both buzzers played by one tick.
C16_Witness ==
    played = {"game", "shot"} /\ game_buzzer_played /\ shot_buzzer_played

\* C18: game_status is "live" exactly while running_game is true, and
\* "scheduled" or "paused" otherwise.
C18_StatusMirrorsRunning ==
    /\ game_status \in {"scheduled", "paused", "live"}
    /\ (game_status = "live") <=> running_game

\* The game clock ticked down to zero: still running, still live.
C18_Witness ==
    /\ game_status = "live" /\ running_game
    /\ game_seconds = 0 /\ game_buzzer_played /\ played = {"game"}

\* C12: whatever the state before, reset_all leaves both clocks at their
\* configured initial values, both running flags false, both latches false,
\* scores and fouls 0, the period 1 and both timeouts at the configured
\* count.
C12_ResetAllRestoresStart ==
    [][ reset_all =>
            /\ game_seconds' = cfg.game_seconds
            /\ shot_seconds' = cfg.shot_seconds
            /\ ~running_game' /\ ~running_shot'
            /\ ~game_buzzer_played' /\ ~shot_buzzer_played'
            /\ scoreA' = 0 /\ scoreB' = 0 /\ foulsA' = 0 /\ foulsB' = 0
            /\ period' = 1
            /\ timeoutsA' = cfg.timeouts_per_team
            /\ timeoutsB' = cfg.timeouts_per_team
      ]_vars

\* A state reset_all starts from in which every field it restores is away
\* from its start value: points and fouls on the board, timeouts used, a
\* later period, the game clock run down to zero with its latch set.
C12_Witness ==
    /\ scoreA = MaxScore /\ scoreB > 0 /\ foulsA > 0 /\ foulsB > 0
    /\ timeoutsA = 0 /\ timeoutsB < cfg.timeouts_per_team
    /\ period = cfg.period_max
    /\ game_seconds = 0 /\ running_game /\ game_buzzer_played

C15_PeriodWithinRange ==
    [][ /\ period \in 1..cfg.period_max
        /\ period' \in 1..cfg.period_max
        /\ period = cfg.period_max /\ adjust_period(1) => period' = period
        /\ period = 1 /\ adjust_period(-1) => period' = period
      ]_vars

\* The last period, reached by adjust_period(+1) steps, with timeouts used.
C15_Witness ==
    /\ period = cfg.period_max /\ cfg.period_max > 1
    /\ timeoutsA < cfg.timeouts_per_team /\ scoreB = MaxScore

\* Both runs finished: the clock ticked by d1 then d2, and the clock ticked
\* once by d1 + d2.
BothTicked == fp.ticks = 2 /\ fp.merged

\* None of the operations involved was rounded.
NothingRounded ==
    /\ fl(fp.d1 + fp.d2) = fp.d1 + fp.d2
    /\ fl(fp.v0 - fp.d1) = fp.v0 - fp.d1
    /\ fl(fp.v0 - fp.d1 - fp.d2) = fp.v0 - fp.d1 - fp.d2

\* C17 as stated: for a running clock with value v and any dt1, dt2 >= 0, a
\* tick of dt1 followed by a tick of dt2 leaves the same value as one tick
\* of dt1 + dt2.
C17_TicksAdditive ==
    BothTicked => fp.split = fp.single

\* C17, amended: when no subtraction and no sum involved is rounded, a tick
\* of dt1 followed by a tick of dt2 leaves the same value as one tick of
\* dt1 + dt2, namely max(0, v - dt1 - dt2).
C17_TicksAdditiveWhenExact ==
    BothTicked /\ NothingRounded =>
        /\ fp.split = fp.single
        /\ fp.single = Max(0, fp.v0 - fp.d1 - fp.d2)

\* Two unrounded ticks of which the second takes the clock through zero.
C17_Witness ==
    /\ BothTicked /\ NothingRounded
    /\ fp.d1 > 0 /\ fp.v0 > fp.d1 /\ fp.v0 < fp.d1 + fp.d2
    /\ fp.split = 0 /\ fp.single = 0

\* C20: from the same configuration, every tick and every operation the two
\* programs share takes scoreboard.py's scores, fouls, timeouts, period,
\* clocks and running flags to the values scoreboard_tkinter.py's code
\* gives from the same values, so the two stay equal along every sequence.
C20_VariantsAgree ==
    [][ LET before == shared_fields
            after == shared_fields'
        IN
        /\ \A team \in Teams, points \in ScorePoints :
              update_score(team, points) =>
                  after = tk_update_score(before, team, points)
        /\ \A team \in Teams, change \in CountChanges :
              update_timeout(team, change) =>
                  after = tk_update_timeout(before, team, change)
        /\ \A team \in Teams, change \in CountChanges :
              update_foul(team, change) =>
                  after = tk_update_foul(before, team, change)
        /\ \A delta \in PeriodDeltas :
              adjust_period(delta) =>
                  after = tk_adjust_period(before, delta)
        /\ toggle_game_time => after = tk_toggle_game_time(before)
        /\ toggle_shot_time => after = tk_toggle_shot_time(before)
        /\ \A seconds \in GameDeltas :
              adjust_time(seconds) =>
                  after = tk_adjust_time(before, seconds)
        /\ reset_shot_clock => after = tk_reset_shot_clock(before)
        /\ reset_all => after = tk_reset_all(before)
        /\ \A current_time \in Readings :
              TickAt(current_time) =>
                  after =
                      tk_timer_thread(before, current_time - last_update)
      ]_vars

\* C19: what a tick or an operator operation does to the clock values,
\* running flags, scores, fouls, timeouts and period is fixed by those
\* fields, the configuration and the operation's input alone: it is the
\* same with or without a loaded sound, whether play() sounds or raises,
\* with or without a Supabase client, and whether the upsert succeeds or
\* fails.  Equal sequences of ticks and operations therefore give equal
\* fields.
C19_FieldsIgnoreCollaborators ==
    [][ LET before == shared_fields
            after == shared_fields'
        IN
        /\ \A current_time \in ForwardReadings :
              TickAt(current_time) =>
                  after =
                      plain_timer_thread(before, current_time - last_update)
        /\ periodic_update => after = before
        /\ \A team \in Teams, points \in ScorePoints :
              update_score(team, points) =>
                  after = plain_update_score(before, team, points)
        /\ toggle_game_time =>
              after = plain_toggle_game_time(before)
        /\ toggle_shot_time =>
              after = plain_toggle_shot_time(before)
        /\ \A seconds \in GameDeltas :
              adjust_time(seconds) =>
                  after = plain_adjust_time(before, seconds)
        /\ reset_shot_clock =>
              after = plain_reset_shot_clock(before)
        /\ reset_all => after = plain_reset_all(before)
      ]_vars

\* No sound, a Supabase client whose last upsert failed, and a game that
\* went on: points scored, the game clock run down to zero.
C19_Witness ==
    /\ ~buzzer_sound /\ supabase_client
    /\ last_score_data # NoData /\ last_score_data # <<get_score_data>>
    /\ scoreA = 3 /\ game_seconds = 0 /\ running_game /\ shot_seconds = 0

\* C26: update_score, update_foul and update_timeout for a team change only
\* that team's counter of that kind: the other team's counters, the team's
\* other two counters, the period, both clock values, both running flags,
\* both latches and game_status stay as they were.
C26_CounterFrame ==
    [][ LET rest == <<period, game_seconds, shot_seconds, running_game,
                      running_shot, game_buzzer_played, shot_buzzer_played,
                      game_status>>
        IN
        /\ \A points \in ScorePoints :
              /\ update_score("A", points) =>
                    UNCHANGED <<scoreB, foulsA, foulsB, timeoutsA, timeoutsB, rest>>
              /\ update_score("B", points) =>
                    UNCHANGED <<scoreA, foulsA, foulsB, timeoutsA, timeoutsB, rest>>
        /\ \A change \in CountChanges :
              /\ update_foul("A", change) =>
                    UNCHANGED <<scoreA, scoreB, foulsB, timeoutsA, timeoutsB, rest>>
              /\ update_foul("B", change) =>
                    UNCHANGED <<scoreA, scoreB, foulsA, timeoutsA, timeoutsB, rest>>
              /\ update_timeout("A", change) =>
                    UNCHANGED <<scoreA, scoreB, foulsA, foulsB, timeoutsB, rest>>
              /\ update_timeout("B", change) =>
                    UNCHANGED <<scoreA, scoreB, foulsA, foulsB, timeoutsA, rest>>
      ]_vars

\* Every counter of team A away from the value team B holds for it, with
\* the game clock run down to zero and its latch set: each kind of counter
\* was changed for one team and not for the other.
C26_Witness ==
    /\ scoreA = 2 /\ scoreB = 0
    /\ foulsA = 0 /\ foulsB = 1
    /\ timeoutsA = cfg.timeouts_per_team - 1 /\ timeoutsB = cfg.timeouts_per_team
    /\ running_game /\ game_seconds = 0 /\ game_buzzer_played

\* C27: in every reachable state a set latch implies that its clock is at
\* zero.
C27_LatchImpliesZero ==
    /\ game_buzzer_played => game_seconds = 0
    /\ shot_buzzer_played => shot_seconds = 0

\* C28: no adjustment is lost to a tick in flight.  When the timer writes a
\* clock, the value written is what one of the two serial orders gives:
\* the tick of the value the clock holds at that moment (adjustment first),
\* or the adjustment of the tick of the value the timer read (tick first).
C28_NoLostAdjustment ==
    [][ /\ T_game_store =>
              \/ game_seconds' = tick_value(game_seconds, dt)
              \/ \E seconds \in GameDeltas :
                    /\ game_seconds = adjusted_game(loaded, seconds)
                    /\ game_seconds' =
                          adjusted_game(tick_value(loaded, dt), seconds)
        /\ T_shot_store =>
              \/ shot_seconds' = tick_value(shot_seconds, dt)
              \/ \E delta \in ShotDeltas :
                    /\ shot_seconds = adjusted_shot(loaded, delta)
                    /\ shot_seconds' =
                          adjusted_shot(tick_value(loaded, dt), delta)
      ]_vars

\* C29: a reset is not undone by a tick in flight.  Once the timer is back
\* at the top of its loop, a game that has not been started since reset_all
\* (game_status is still "scheduled") shows the game clock at its
\* configured start value with its latch false, and no game buzzer sounds.
C29_ResetSurvivesTick ==
    game_status = "scheduled" /\ pc = "loop" =>
        /\ game_seconds = cfg.game_seconds
        /\ ~game_buzzer_played
        /\ "game" \notin played

\* C25: an upsert is sent only when the current snapshot differs from
\* last_score_data; last_score_data changes only by a successful upsert and
\* then equals the snapshot sent; a failed upsert or an absent client leaves
\* it as it was, so that the next call sends the same snapshot again.
C25_UpsertOnlyOnChange ==
    [][ /\ upserted' # "none" =>
              supabase_client /\ last_score_data # <<get_score_data'>>
        /\ last_score_data' # last_score_data => upserted' = "ok"
        /\ upserted' = "ok" => last_score_data' = <<get_score_data'>>
        /\ upserted' = "failed" \/ ~supabase_client =>
              last_score_data' = last_score_data
        /\ upserted = "failed" /\ periodic_update => upserted' # "none"
      ]_vars

\* A second upsert of the same snapshot failed after an earlier snapshot had
\* been stored: the stored snapshot is the older one.
C25_Witness ==
    /\ supabase_client /\ upserted = "failed"
    /\ last_score_data # NoData /\ last_score_data # <<get_score_data>>
    /\ scoreA = 3 /\ running_game

\* C30: with a client whose upserts succeed, and the timer loop and the Tk
\* event queue scheduled fairly, every change is eventually mirrored:
\* always, eventually, last_score_data equals the current snapshot of
\* get_score_data.  (last_score_data only ever changes to the current
\* snapshot, so once the game state has stopped changing it stays equal.)
C30_EventuallyMirrored ==
    []<>(last_score_data = <<get_score_data>>)

\* The game clock ran down to zero by ticks alone and the upsert of that
\* snapshot, sent by a queued callback, succeeded; the timer has not yet
\* queued the next callback.
C30_Witness ==
    /\ supabase_client /\ upserted = "ok"
    /\ last_score_data = <<get_score_data>>
    /\ game_seconds = 0 /\ running_game /\ game_buzzer_played
    /\ after_queue = 0 /\ supabase_update_timer < 0

\* The month after, and the month before, the month of a date.
MonthAfter(date) ==
    IF date.month = 12 THEN [year |-> date.year + 1, month |-> 1]
    ELSE [year |-> date.year, month |-> date.month + 1]
MonthBefore(date) ==
    IF date.month = 1 THEN [year |-> date.year - 1, month |-> 12]
    ELSE [year |-> date.year, month |-> date.month - 1]

\* C21: for any current_date, get_games_by_month_range asks for the games
\* dated from the first day of the previous month through the last day of
\* the next month.
C21_ThreeMonthWindow ==
    month_query.stage = "queried" =>
        LET before == MonthBefore(month_query.current_date)
            after == MonthAfter(month_query.current_date)
        IN  /\ month_query.gte = <<before.year, before.month, 1>>
            /\ month_query.lte =
                  <<after.year, after.month,
                    days_in_month(after.year, after.month)>>

\* The games of a list whose game_date parses, and the date of a game.
Parseable(games) == {i \in 1..Len(games) : strptime(games[i].game_date).ok}
DateOf(game) ==
    LET parsed == strptime(game.game_date)
    IN  [day |-> parsed.day, minute |-> parsed.minute]

\* C22: make_display_items returns the quick-start entry (game None)
\* first, then the games dated today or later in ascending date order, then
\* the games dated before today in descending date order; every game with
\* a parseable date appears exactly once, and the text of every entry is
\* the text of its own game.
C22_DisplayOrder ==
    listing.stage = "returned" =>
        LET items == listing.items
            games == listing.games
            n == Len(items)
            IsFuture(i) == DateOf(items[i].game).day >= listing.now.day
        IN  /\ n = 1 + Cardinality(Parseable(games))
            /\ items[1] = QuickStart
            /\ \A g \in Parseable(games) :
                  Cardinality({i \in 2..n : items[i].game = games[g]}) = 1
            /\ \A i \in 2..n :
                  /\ strptime(items[i].game.game_date).ok
                  /\ items[i].text = display_text(items[i].game, DateOf(items[i].game))
            /\ \A i \in 2..n, j \in 2..n :
                  i < j =>
                     /\ IsFuture(j) => IsFuture(i)
                     /\ IsFuture(i) /\ IsFuture(j) =>
                           before_or_at(DateOf(items[i].game), DateOf(items[j].game))
                     /\ ~IsFuture(i) /\ ~IsFuture(j) =>
                           before_or_at(DateOf(items[j].game), DateOf(items[i].game))

\* Three games returned in the order tomorrow, yesterday evening, today
\* morning while it is afternoon: the listing puts today's game first, then
\* tomorrow's, then yesterday's.
C22_Witness ==
    /\ listing.stage = "returned" /\ listing.now.minute = 900
    /\ Len(listing.items) = 4
    /\ listing.items[2].game.id = 3 /\ listing.items[2].game.game_date.day = 0
    /\ listing.items[2].game.game_date.minute = 600
    /\ listing.items[3].game.id = 1 /\ listing.items[3].game.game_date.day = 1
    /\ listing.items[4].game.id = 2 /\ listing.items[4].game.game_date.day = -1

\* C23: Enter on the highlighted entry returns that entry's game, for every
\* index that can be selected, index 0 included (the quick-start entry,
\* whose game is None), without raising, whatever APP_DEBUG is.
C23_EnterReturnsGame ==
    [][ K_RETURN =>
            /\ selection'.stage = "returned"
            /\ selection'.result =
                  <<display_items(selection.total_games)[selection.selected_index].game>>
      ]_vars

\* C24: after any sequence of Up and Down presses the selected index is
\* within the list and within the visible window:
\* 0 <= selected_index < total_games, scroll_offset >= 0 and
\* scroll_offset <= selected_index < scroll_offset + max_visible_games.
C24_SelectionVisible ==
    selection.stage = "open" =>
        /\ 0 <= selection.selected_index
        /\ selection.selected_index < selection.total_games
        /\ selection.scroll_offset >= 0
        /\ selection.scroll_offset <= selection.selected_index
        /\ selection.selected_index < selection.scroll_offset + max_visible_games

\* The longest list scrolled down to its end and then back up until the
\* highlighted entry sits on the first visible line, below the top.
C24_Witness ==
    /\ selection.stage = "open" /\ selection.total_games = MaxListed
    /\ selection.scroll_offset = 1
    /\ selection.selected_index = selection.scroll_offset

=============================================================================
